---- MODULE Spec2Model ----
(***************************************************************************)
(* Model of script.js: an Express relay with two inbound routes,           *)
(* POST /stkpush and POST /callback, and two outbound gateway calls, the   *)
(* OAuth token fetch (axios.get) and the STK push (axios.post).            *)
(*                                                                         *)
(* Every inbound request is one task of the Node event loop.  A handler    *)
(* runs without interruption up to its first await, so each action below   *)
(* is one such uninterrupted stretch: the arrival of a request up to its   *)
(* response or to the issue of the token fetch, the settlement of the      *)
(* token fetch up to the 500 response or to the issue of the push call,    *)
(* and the settlement of the push call up to the response.                 *)
(*                                                                         *)
(* Strings that are formatted or encoded (the ISO date, the timestamp, the *)
(* credentials that enter the password) are sequences of ASCII codes.      *)
(***************************************************************************)
EXTENDS Integers, Sequences, FiniteSets

VARIABLES
    req,            \* per inbound request: position, inputs, locals, response
    tokenFetches,   \* number of axios.get calls issued so far
    pushCalls,      \* number of axios.post calls issued so far
    tsIn,           \* clock value handed to getTimestamp (timestamp specification)
    tsOut           \* string returned by getTimestamp  (timestamp specification)

vars == <<req, tokenFetches, pushCalls, tsIn, tsOut>>

\* ------------------------------------------------------------------ bounds
NumReq == 2
Requests == 1..NumReq

\* ------------------------------------------------------- JavaScript values
Undef == [t |-> "undefined", n |-> 0, s |-> ""]
Num(k) == [t |-> "number", n |-> k, s |-> ""]
Str(x) == [t |-> "string", n |-> 0, s |-> x]

\* ToBoolean, as applied by the ! operator of the validation
Truthy(v) ==
    CASE v.t = "number" -> v.n # 0
      [] v.t = "string" -> v.s # ""
      [] OTHER -> FALSE

\* ------------------------------------------------------------- credentials
\* process.env values, as ASCII codes: "174379" and "bfb279"
BUSINESS_SHORTCODE == <<49, 55, 52, 51, 55, 57>>
PASSKEY == <<98, 102, 98, 50, 55, 57>>
CALLBACK_URL == "https://example.test/callback"

\* ----------------------------------------------------------------- base64
Alphabet ==
    <<"A","B","C","D","E","F","G","H","I","J","K","L","M","N","O","P",
      "Q","R","S","T","U","V","W","X","Y","Z","a","b","c","d","e","f",
      "g","h","i","j","k","l","m","n","o","p","q","r","s","t","u","v",
      "w","x","y","z","0","1","2","3","4","5","6","7","8","9","+","/">>

B64(i) == Alphabet[i + 1]

RECURSIVE Base64(_)
\* Buffer.from(bytes).toString('base64'): three bytes become four characters,
\* a final group of one or two bytes is padded with '='
Base64(b) ==
    IF Len(b) = 0 THEN ""
    ELSE IF Len(b) = 1 THEN
        B64(b[1] \div 4) \o B64((b[1] % 4) * 16) \o "=="
    ELSE IF Len(b) = 2 THEN
        B64(b[1] \div 4) \o B64((b[1] % 4) * 16 + b[2] \div 16)
            \o B64((b[2] % 16) * 4) \o "="
    ELSE
        B64(b[1] \div 4) \o B64((b[1] % 4) * 16 + b[2] \div 16)
            \o B64((b[2] % 16) * 4 + b[3] \div 64) \o B64(b[3] % 64)
            \o Base64(SubSeq(b, 4, Len(b)))

\* ------------------------------------------------------------------- Date
\* A time value is [day |-> days since 1970-01-01, ms |-> milliseconds
\* within that day], both UTC (the millisecond count itself does not fit
\* TLC's 32-bit integers).
DayFromYear(y) ==
    365 * (y - 1970) + (y - 1969) \div 4 - (y - 1901) \div 100
        + (y - 1601) \div 400

YearFromTime(t) ==
    CHOOSE y \in (1970 + t.day \div 366)..(1970 + t.day \div 365) :
        DayFromYear(y) <= t.day /\ t.day < DayFromYear(y + 1)

InLeapYear(t) == DayFromYear(YearFromTime(t) + 1) - DayFromYear(YearFromTime(t)) - 365

DayWithinYear(t) == t.day - DayFromYear(YearFromTime(t))

\* first day within the year of month m (1..13), for leap = 0 or 1
MonthStart(m, leap) ==
    IF m <= 2 THEN <<0, 31>>[m]
    ELSE <<59, 90, 120, 151, 181, 212, 243, 273, 304, 334, 365>>[m - 2] + leap

MonthFromTime(t) ==
    CHOOSE m \in 1..12 :
        /\ MonthStart(m, InLeapYear(t)) <= DayWithinYear(t)
        /\ DayWithinYear(t) < MonthStart(m + 1, InLeapYear(t))

DateFromTime(t) ==
    DayWithinYear(t) - MonthStart(MonthFromTime(t), InLeapYear(t)) + 1

HourFromTime(t) == t.ms \div 3600000
MinFromTime(t) == (t.ms \div 60000) % 60
SecFromTime(t) == (t.ms \div 1000) % 60
msFromTime(t) == t.ms % 1000

RECURSIVE Pad(_, _)
\* decimal digits of n, zero-padded to width w, as ASCII codes
Pad(n, w) == IF w = 0 THEN <<>> ELSE Pad(n \div 10, w - 1) \o <<48 + (n % 10)>>

\* Date.prototype.toISOString: YYYY-MM-DDTHH:mm:ss.sssZ, and the expanded
\* form +YYYYYY-... for years past 9999
toISOString(t) ==
    (IF YearFromTime(t) <= 9999 THEN Pad(YearFromTime(t), 4)
     ELSE <<43>> \o Pad(YearFromTime(t), 6))
    \o <<45>> \o Pad(MonthFromTime(t), 2)
    \o <<45>> \o Pad(DateFromTime(t), 2)
    \o <<84>> \o Pad(HourFromTime(t), 2)
    \o <<58>> \o Pad(MinFromTime(t), 2)
    \o <<58>> \o Pad(SecFromTime(t), 2)
    \o <<46>> \o Pad(msFromTime(t), 3)
    \o <<90>>

IsDigit(c) == c >= 48 /\ c <= 57

\* .replace(/[^0-9]/g, '')
StripNonDigits(s) == SelectSeq(s, IsDigit)

\* .slice(0, -3)
DropLast3(s) == SubSeq(s, 1, Len(s) - 3)

\* the time value half a second later
AddHalfSecond(t) ==
    IF t.ms + 500 >= 86400000
    THEN [day |-> t.day + 1, ms |-> t.ms + 500 - 86400000]
    ELSE [day |-> t.day, ms |-> t.ms + 500]

\* variant that rounds to the nearest second instead of truncating
getTimestampRounded(t) ==
    DropLast3(StripNonDigits(toISOString(AddHalfSecond(t))))

getTimestamp(t) == DropLast3(StripNonDigits(toISOString(t)))

\* ------------------------------------------------------- inbound payloads
\* A request body as sent on the wire with Content-Type application/json:
\* its JSON shape and, for an object, the four fields the handler reads.
Payload(shape, phone, amount, reference, description) ==
    [shape |-> shape, phone |-> phone, amount |-> amount,
     reference |-> reference, description |-> description]

NoFields(shape) == Payload(shape, Undef, Undef, Undef, Undef)

PhoneValues == {Undef, Str("254712345678"), Str("254700000001")}
AmountValues == {Undef, Num(0), Num(100)}
ReferenceValues == {Undef, Str(""), Str("INV001")}
DescriptionValues == {Undef, Str("Test")}

ObjectPayloads ==
    {Payload("object", p, a, f, d) :
        p \in PhoneValues, a \in AmountValues,
        f \in ReferenceValues, d \in DescriptionValues}

\* JSON texts posted to /stkpush: objects, an array, a primitive
StkPayloads == ObjectPayloads \cup {NoFields("array"), NoFields("primitive")}

\* JSON texts posted to /callback: a gateway object, {}, an array, a
\* primitive, and a zero-length body
CallbackPayloads ==
    {Payload("object", Str("254712345678"), Num(100), Undef, Undef),
     NoFields("object"), NoFields("array"), NoFields("primitive"),
     NoFields("empty")}

\* clock values read by new Date() while serving /stkpush
Clocks == {[day |-> 19782, ms |-> 86399999], [day |-> 20758, ms |-> 26345500]}

\* ------------------------------------------------------ gateway responses
Tokens == {"tokA", "tokB"}
PushData == {"ws_1", "ws_2"}

Reply(ok, data) == [ok |-> ok, data |-> data]
NoReply == Reply(FALSE, "")

\* ------------------------------------------------------ inbound responses
Response(status, kind, text) == [status |-> status, kind |-> kind, text |-> text]
NoResponse == Response(0, "none", "")

\* res.status(code).json({ error: message })
jsonError(code, message) == Response(code, "error", message)

\* res.status(code).json(data)
jsonData(code, data) == Response(code, "data", data)

sendStatusEmpty(code) == Response(code, "none", "")

\* res.sendStatus(code): the status text is sent as the body
sendStatus(code) ==
    Response(code, "text", IF code = 200 THEN "OK" ELSE "")

\* the error middleware's answer to a body the JSON parser rejects
parseError == Response(400, "errorpage", "")

\* ------------------------------------------------------------ express.json
StrictRejectNonObject(raw) == raw.shape \in {"primitive", "array"}

\* strict mode (the default): a JSON text that is neither an object nor an
\* array is a syntax error
StrictReject(raw) == raw.shape = "primitive"

\* req.body after parsing: the object or array sent, {} for an empty body
JsonParse(raw) == IF raw.shape = "empty" THEN NoFields("object") ELSE raw

\* property read of the destructuring; an array has none of the four
Prop(body, name) == IF body.shape = "object" THEN body[name] ELSE Undef

\* ------------------------------------------------------------- validation
Missing(v) == ~Truthy(v)

MissingParamsNoDescription(body) ==
    \/ Missing(Prop(body, "phone"))
    \/ Missing(Prop(body, "amount"))
    \/ Missing(Prop(body, "reference"))

MissingParamsAbsentOnly(body) ==
    \/ Prop(body, "phone") = Undef
    \/ Prop(body, "amount") = Undef
    \/ Prop(body, "reference") = Undef
    \/ Prop(body, "description") = Undef

\* !phone || !amount || !reference || !description
MissingParams(body) ==
    \/ Missing(Prop(body, "phone"))
    \/ Missing(Prop(body, "amount"))
    \/ Missing(Prop(body, "reference"))
    \/ Missing(Prop(body, "description"))

MissingMessage == "Missing required parameters: phone, amount, reference, description"
TokenErrorMessage == "Failed to get M-Pesa access token"
PushErrorMessage == "Failed to initiate STK Push"

\* --------------------------------------------------------------- stkPush
\* Buffer.from(`${BUSINESS_SHORTCODE}${PASSKEY}${timestamp}`).toString('base64')
Password(timestamp) == Base64(BUSINESS_SHORTCODE \o PASSKEY \o timestamp)

PushBodySwappedTexts(phone, amount, accountRef, transactionDesc, timestamp, password) ==
    [BusinessShortCode |-> BUSINESS_SHORTCODE,
     Password |-> password,
     Timestamp |-> timestamp,
     TransactionType |-> "CustomerPayBillOnline",
     Amount |-> amount,
     PartyA |-> phone,
     PartyB |-> BUSINESS_SHORTCODE,
     PhoneNumber |-> phone,
     CallBackURL |-> CALLBACK_URL,
     AccountReference |-> transactionDesc,
     TransactionDesc |-> accountRef]

\* the JSON body of the axios.post call; PartyB is kept apart from
\* BusinessShortCode so that the two are compared, not assumed equal
PushBody(phone, amount, accountRef, transactionDesc, timestamp, password) ==
    [BusinessShortCode |-> BUSINESS_SHORTCODE,
     Password |-> password,
     Timestamp |-> timestamp,
     TransactionType |-> "CustomerPayBillOnline",
     Amount |-> amount,
     PartyA |-> phone,
     PartyB |-> BUSINESS_SHORTCODE,
     PhoneNumber |-> phone,
     CallBackURL |-> CALLBACK_URL,
     AccountReference |-> accountRef,
     TransactionDesc |-> transactionDesc]

NoPush == PushBody(Undef, Undef, Undef, Undef, <<>>, "")

\* the token of a process-wide cache, when another request has filled it
BearerCached(r, token) ==
    IF \E x \in Requests \ {r} : req[x].token # ""
    THEN "Bearer " \o req[CHOOSE x \in Requests \ {r} : req[x].token # ""].token
    ELSE "Bearer " \o token

\* Authorization: `Bearer ${token}`, token being the constant local to
\* request r's call of stkPush
Bearer(r, token) == "Bearer " \o token

\* ------------------------------------------------------ handler responses
stkpushCatchNoStatus(message) == jsonError(200, message)

\* res.status(500).json({ error: error.message || 'STK Push failed' })
stkpushCatch(message) ==
    jsonError(500, IF message # "" THEN message ELSE "STK Push failed")

\* ------------------------------------------------------------ the state
IdleReq ==
    [pc |-> "idle", route |-> "none", raw |-> NoFields("empty"),
     timestamp |-> <<>>, password |-> "",
     tokenState |-> "none", tokenReply |-> NoReply, token |-> "",
     pushState |-> "none", pushReply |-> NoReply,
     sent |-> NoPush, auth |-> "",
     tokCalls |-> 0, pushed |-> 0, res |-> NoResponse]

Epoch == [day |-> 0, ms |-> 0]

Init ==
    /\ req = [r \in Requests |-> IdleReq]
    /\ tokenFetches = 0
    /\ pushCalls = 0
    /\ tsIn = Epoch
    /\ tsOut = <<>>

\* POST /stkpush arrives: express.json, then the handler up to its response
\* or, through stkPush and getAccessToken, up to the issue of axios.get
PostStkpush(r) ==
    /\ req[r].pc = "idle"
    /\ \E raw \in StkPayloads, now \in Clocks :
        LET arrived == [req[r] EXCEPT !.route = "/stkpush", !.raw = raw]
            body == JsonParse(raw)
        IN  IF StrictReject(raw) THEN
                /\ req' = [req EXCEPT ![r] =
                       [arrived EXCEPT !.pc = "done", !.res = parseError]]
                /\ UNCHANGED tokenFetches
            ELSE IF MissingParams(body) THEN
                /\ req' = [req EXCEPT ![r] =
                       [arrived EXCEPT !.pc = "done",
                                       !.res = jsonError(400, MissingMessage)]]
                /\ UNCHANGED tokenFetches
            ELSE
                /\ req' = [req EXCEPT ![r] =
                       [arrived EXCEPT
                           !.pc = "awaitToken",
                           !.timestamp = getTimestamp(now),
                           !.password = Password(getTimestamp(now)),
                           !.tokenState = "pending",
                           !.tokCalls = @ + 1]]
                /\ tokenFetches' = tokenFetches + 1
    /\ UNCHANGED <<pushCalls, tsIn, tsOut>>

\* POST /callback arrives: express.json, then log and acknowledge
PostCallback(r) ==
    /\ req[r].pc = "idle"
    /\ \E raw \in CallbackPayloads :
        LET arrived == [req[r] EXCEPT !.route = "/callback", !.raw = raw]
        IN  req' = [req EXCEPT ![r] =
                [arrived EXCEPT
                    !.pc = "done",
                    !.res = IF StrictReject(raw) THEN parseError
                            ELSE sendStatus(200)]]
    /\ UNCHANGED <<tokenFetches, pushCalls, tsIn, tsOut>>

\* axios.get resolves: getAccessToken returns res.data.access_token and
\* stkPush goes on to issue axios.post
TokenResolved(r) ==
    /\ req[r].pc = "awaitToken"
    /\ \E tok \in Tokens :
        LET q == req[r]
            phone == Prop(JsonParse(q.raw), "phone")
            amount == Prop(JsonParse(q.raw), "amount")
            reference == Prop(JsonParse(q.raw), "reference")
            description == Prop(JsonParse(q.raw), "description")
        IN  req' = [req EXCEPT ![r] =
                [q EXCEPT
                    !.pc = "awaitPush",
                    !.tokenState = "ok",
                    !.tokenReply = Reply(TRUE, tok),
                    !.token = tok,
                    !.sent = PushBody(phone, amount, reference, description,
                                      q.timestamp, q.password),
                    !.auth = Bearer(r, tok),
                    !.pushState = "pending",
                    !.pushed = @ + 1]]
    /\ pushCalls' = pushCalls + 1
    /\ UNCHANGED <<tokenFetches, tsIn, tsOut>>

TokenRejectedPushesAnyway(r) ==
    /\ req[r].pc = "awaitToken"
    /\ req' = [req EXCEPT ![r] =
           [@ EXCEPT !.pc = "awaitPush", !.tokenState = "failed",
                     !.pushState = "pending", !.pushed = @ + 1]]
    /\ pushCalls' = pushCalls + 1
    /\ UNCHANGED <<tokenFetches, tsIn, tsOut>>

\* axios.get rejects (network error or non-2xx): getAccessToken throws, the
\* error leaves stkPush at its await and the handler's catch answers
TokenRejected(r) ==
    /\ req[r].pc = "awaitToken"
    /\ req' = [req EXCEPT ![r] =
           [@ EXCEPT !.pc = "done", !.tokenState = "failed",
                     !.res = stkpushCatch(TokenErrorMessage)]]
    /\ UNCHANGED <<tokenFetches, pushCalls, tsIn, tsOut>>

\* axios.post resolves: stkPush returns res.data, the handler relays it
PushResolved(r) ==
    /\ req[r].pc = "awaitPush"
    /\ \E data \in PushData :
        req' = [req EXCEPT ![r] =
            [@ EXCEPT !.pc = "done", !.pushState = "ok",
                      !.pushReply = Reply(TRUE, data),
                      !.res = jsonData(200, data)]]
    /\ UNCHANGED <<tokenFetches, pushCalls, tsIn, tsOut>>

PushRejectedRetry(r) ==
    /\ req[r].pc = "awaitPush"
    /\ req[r].pushed < 3
    /\ req' = [req EXCEPT ![r] = [@ EXCEPT !.pushed = @ + 1]]
    /\ pushCalls' = pushCalls + 1
    /\ UNCHANGED <<tokenFetches, tsIn, tsOut>>

\* axios.post rejects: stkPush throws, the handler's catch answers
PushRejected(r) ==
    /\ req[r].pc = "awaitPush"
    /\ req' = [req EXCEPT ![r] =
           [@ EXCEPT !.pc = "done", !.pushState = "failed",
                     !.res = stkpushCatch(PushErrorMessage)]]
    /\ UNCHANGED <<tokenFetches, pushCalls, tsIn, tsOut>>

Next ==
    \E r \in Requests :
        \/ PostStkpush(r)
        \/ PostCallback(r)
        \/ TokenResolved(r)
        \/ TokenRejected(r)
        \/ PushResolved(r)
        \/ PushRejected(r)

Spec == Init /\ [][Next]_vars

\* ------------------------------------------- getTimestamp on its own
\* clock values: day boundaries, leap days, century years, the last day of
\* year 9999; seconds, minutes and hours on both sides of a carry
ClockDays == {0, 58, 59, 10956, 11322, 19782, 20758, 47541, 2932896}
ClockMillis ==
    {0, 999, 1000, 59999, 3599999, 3600000, 43200500, 86399499, 86399999}
ClocksTS == {[day |-> d, ms |-> m] : d \in ClockDays, m \in ClockMillis}

InitTS ==
    /\ req = [r \in Requests |-> IdleReq]
    /\ tokenFetches = 0
    /\ pushCalls = 0
    /\ tsIn \in ClocksTS
    /\ tsOut = <<>>

\* new Date(): the clock is read
ReadClock ==
    /\ tsIn' \in ClocksTS
    /\ tsOut' = <<>>
    /\ UNCHANGED <<req, tokenFetches, pushCalls>>

\* the formatting of the value read
CallGetTimestamp ==
    /\ tsOut = <<>>
    /\ tsOut' = getTimestamp(tsIn)
    /\ UNCHANGED <<req, tokenFetches, pushCalls, tsIn>>

NextTS == ReadClock \/ CallGetTimestamp

SpecTS == InitTS /\ [][NextTS]_vars

\* ---------------------------------------------------------------- claims
Started(r) == req[r].pc # "idle"
IsStk(r) == Started(r) /\ req[r].route = "/stkpush"
IsCallback(r) == Started(r) /\ req[r].route = "/callback"
Validated(r) == IsStk(r) /\ req[r].tokenState # "none"
NoOutbound(r) ==
    /\ req[r].tokCalls = 0
    /\ req[r].pushed = 0
    /\ req[r].tokenState = "none"
    /\ req[r].pushState = "none"

FieldsOf(raw) == {raw.phone, raw.amount, raw.reference, raw.description}

\* the JSON body is not an object carrying all four fields
LacksField(raw) == raw.shape # "object" \/ Undef \in FieldsOf(raw)

\* a field carries a value that JavaScript's ! turns into true
HasFalsyField(raw) == FieldsOf(raw) \cap {Num(0), Str("")} # {}

\* C1: a /stkpush request whose JSON body lacks one of phone, amount,
\* reference, description is answered 400, and neither the token fetch nor
\* the push call is ever issued for it.
C1_MissingFieldIs400 ==
    \A r \in Requests :
        (IsStk(r) /\ LacksField(req[r].raw)) =>
            /\ req[r].pc = "done"
            /\ req[r].res.status = 400
            /\ NoOutbound(r)

\* a request whose only defect is the absent description was answered
C1_Witness ==
    \E r \in Requests :
        /\ IsStk(r)
        /\ req[r].raw.shape = "object"
        /\ req[r].raw.description = Undef
        /\ Undef \notin {req[r].raw.phone, req[r].raw.amount, req[r].raw.reference}
        /\ ~HasFalsyField(req[r].raw)
        /\ req[r].res.status = 400

\* C2: when the token fetch of a validated /stkpush request fails, the
\* request is answered 500 and its push call is never attempted.
C2_TokenFailureIs500NoPush ==
    \A r \in Requests :
        (Validated(r) /\ req[r].tokenState = "failed") =>
            /\ req[r].pc = "done"
            /\ req[r].res.status = 500
            /\ req[r].pushed = 0
            /\ req[r].pushState = "none"

C2_Witness ==
    \E r \in Requests : Validated(r) /\ req[r].tokenState = "failed"

\* C3: a validated /stkpush request whose two outbound calls both succeed
\* is answered 200 with exactly the gateway's push response body; one whose
\* token fetch or push call fails is answered 500 with {error: <message>},
\* never 200.
C3_RelayOrError ==
    \A r \in Requests :
        Validated(r) =>
            /\ (req[r].tokenState = "ok" /\ req[r].pushState = "ok") =>
                   /\ req[r].pc = "done"
                   /\ req[r].res.status = 200
                   /\ req[r].res.kind = "data"
                   /\ req[r].res.text = req[r].pushReply.data
            /\ ("failed" \in {req[r].tokenState, req[r].pushState}) =>
                   /\ req[r].pc = "done"
                   /\ req[r].res.status = 500
                   /\ req[r].res.kind = "error"
                   /\ req[r].res.text # ""

\* one request relayed a gateway body while another was refused by the push
C3_Witness ==
    \E r, x \in Requests :
        /\ Validated(r) /\ req[r].pushState = "ok" /\ req[r].res.status = 200
        /\ Validated(x) /\ req[x].pushState = "failed"

\* C4 as stated: whatever the shape of the JSON posted to /callback (object,
\* array, primitive, empty) the answer is 200, and no outbound call is made.
C4_Original ==
    \A r \in Requests :
        IsCallback(r) => (req[r].res.status = 200 /\ NoOutbound(r))

\* C4 amended: a JSON object, a JSON array or an empty body posted to
\* /callback is answered 200; a JSON primitive is refused with 400 by the
\* strict JSON parser before the handler runs; in no case is an outbound
\* call made.
C4_CallbackByShape ==
    \A r \in Requests :
        IsCallback(r) =>
            /\ req[r].pc = "done"
            /\ NoOutbound(r)
            /\ tokenFetches = Cardinality({x \in Requests : Validated(x)})
            /\ req[r].raw.shape \in {"object", "array", "empty"} =>
                   req[r].res.status = 200
            /\ req[r].raw.shape = "primitive" => req[r].res.status = 400

\* an array was acknowledged and a primitive refused
C4_Witness ==
    \E r, x \in Requests :
        /\ IsCallback(r) /\ req[r].raw.shape = "array" /\ req[r].res.status = 200
        /\ IsCallback(x) /\ req[x].raw.shape = "primitive" /\ req[x].res.status = 400

\* C5 as stated: the success response of /callback is 200 with an empty body.
C5_Original ==
    \A r \in Requests :
        (IsCallback(r) /\ req[r].res.status = 200) => req[r].res.kind = "none"

\* C5 amended: the success response of /callback is 200 with the status
\* text "OK" as its body.
C5_CallbackBodyIsOK ==
    \A r \in Requests :
        (IsCallback(r) /\ req[r].res.status = 200) =>
            (req[r].res.kind = "text" /\ req[r].res.text = "OK")

C5_Witness ==
    \E r \in Requests : IsCallback(r) /\ req[r].res.status = 200

\* C6: the push body of a request that reaches the push call has the fixed
\* TransactionType, the request's phone in PartyA and PhoneNumber, the
\* shortcode in PartyB and BusinessShortCode, the request's amount,
\* reference and description in Amount, AccountReference and
\* TransactionDesc, and as Password base64(shortcode + passkey + T) for the
\* T of its own Timestamp field.
C6_PushBody ==
    \A r \in Requests :
        req[r].pushed > 0 =>
            /\ req[r].sent.TransactionType = "CustomerPayBillOnline"
            /\ req[r].sent.PartyA = req[r].raw.phone
            /\ req[r].sent.PhoneNumber = req[r].raw.phone
            /\ req[r].sent.PartyB = BUSINESS_SHORTCODE
            /\ req[r].sent.BusinessShortCode = BUSINESS_SHORTCODE
            /\ req[r].sent.Amount = req[r].raw.amount
            /\ req[r].sent.AccountReference = req[r].raw.reference
            /\ req[r].sent.TransactionDesc = req[r].raw.description
            /\ Len(req[r].sent.Timestamp) = 14
            /\ req[r].sent.Password =
                   Base64(<<49, 55, 52, 51, 55, 57>> \o <<98, 102, 98, 50, 55, 57>>
                          \o req[r].sent.Timestamp)

\* a push was issued at 2024-02-29T23:59:59.999Z; its password is the
\* base64 text of "174379bfb27920240229235959"
C6_Witness ==
    \E r \in Requests :
        /\ req[r].pushed > 0
        /\ req[r].sent.Password = "MTc0Mzc5YmZiMjc5MjAyNDAyMjkyMzU5NTk="

\* the digits YYYYMMDDHHmmss of a time value, written field by field
Expected(t) ==
    Pad(YearFromTime(t), 4) \o Pad(MonthFromTime(t), 2)
        \o Pad(DateFromTime(t), 2) \o Pad(t.ms \div 3600000, 2)
        \o Pad((t.ms % 3600000) \div 60000, 2)
        \o Pad((t.ms % 60000) \div 1000, 2)

C8_NoCacheNoRetry ==
    /\ \A r \in Requests :
        /\ Validated(r) => (req[r].tokCalls = 1 /\ req[r].pushed <= 1)
        /\ ~Validated(r) => (req[r].tokCalls = 0 /\ req[r].pushed = 0)
    /\ tokenFetches = Cardinality({r \in Requests : Validated(r)})
    /\ pushCalls <= Cardinality({r \in Requests : req[r].tokenState = "ok"})

\* a request ended after both of its calls were answered with a failure or
\* a success, a second one after its token fetch failed
C8_Witness ==
    \E r, x \in Requests :
        /\ req[r].pc = "done" /\ req[r].pushState = "failed"
        /\ req[x].pc = "done" /\ req[x].tokenState = "failed"

\* C9: under any interleaving, the push call of a request carries as Bearer
\* token the access_token returned by that request's own token fetch, its
\* body carries that request's own fields and timestamp, and the response
\* to each caller is the one its own gateway responses determine.
C9_OwnTokenOwnResponse ==
    \A r \in Requests :
        /\ req[r].pushed > 0 =>
            /\ req[r].tokenReply.ok
            /\ req[r].auth = "Bearer " \o req[r].tokenReply.data
            /\ req[r].sent.PhoneNumber = req[r].raw.phone
            /\ req[r].sent.Timestamp = req[r].timestamp
        /\ (IsStk(r) /\ req[r].res.status = 200) =>
            (req[r].pushReply.ok /\ req[r].res.text = req[r].pushReply.data)
        /\ (IsStk(r) /\ req[r].res.status = 500) =>
            req[r].res.text =
                IF req[r].tokenState = "failed" THEN TokenErrorMessage
                ELSE PushErrorMessage

\* two requests in flight at once were given different tokens and both
\* issued their push
C9_Witness ==
    \E r, x \in Requests :
        /\ req[r].pushed > 0 /\ req[x].pushed > 0
        /\ req[r].pc = "awaitPush" /\ req[x].pc = "awaitPush"
        /\ req[r].tokenReply.data # req[x].tokenReply.data

\* C10 as stated: /stkpush answers 400 exactly when one of the four fields
\* is absent; with all four present, whatever their values, it is never 400.
C10_Original ==
    \A r \in Requests :
        IsStk(r) => (req[r].res.status = 400 <=> LacksField(req[r].raw))

\* C10 amended: /stkpush answers 400 exactly when one of the four fields is
\* absent or falsy (0, the empty string); a request whose four fields are
\* all present and truthy is never answered 400 and proceeds to the token
\* fetch.
C10_400IffAbsentOrFalsy ==
    \A r \in Requests :
        IsStk(r) =>
            /\ req[r].res.status = 400 <=>
                   (LacksField(req[r].raw) \/ HasFalsyField(req[r].raw))
            /\ req[r].res.status # 400 => req[r].tokCalls = 1

\* amount 0 with every field present was answered 400
C10_Witness ==
    \E r \in Requests :
        /\ IsStk(r)
        /\ ~LacksField(req[r].raw)
        /\ req[r].raw.amount = Num(0)
        /\ req[r].res.status = 400

====
